---- MODULE Spec2Model ----
(***************************************************************************)
(* State-machine model of backend/agent.py: ScheduleOptimizationAgent.     *)
(*                                                                         *)
(* One call of optimize_schedule is followed from construction of the      *)
(* agent to the value the caller receives.  The language model behind      *)
(* _get_claude_response and the wall clock behind datetime.now() are the   *)
(* environment: every completion call may raise a transient error, raise   *)
(* a fatal error, or return one of a few completion texts, and the clock   *)
(* may move on to the next day between two steps.                          *)
(*                                                                         *)
(* Python values are modelled as follows.                                  *)
(*   dict given by the caller  a record; a key that is absent is absent    *)
(*                             from its DOMAIN                             *)
(*   dict built by the code    a sequence of [date, slots] entries in      *)
(*                             insertion order (Python dicts are ordered)  *)
(*   datetime.date             the number of days since 1 January of       *)
(*                             Epoch.year                                  *)
(*   "YYYY-MM-DD" string       the triple <<year, month, day>>             *)
(*   a prompt string           the record of the four rendered sections    *)
(*                             the template interpolates                   *)
(***************************************************************************)
EXTENDS Integers, Sequences, FiniteSets

VARIABLES
    max_retries,       \* self.max_retries
    partial_schedule,  \* argument of optimize_schedule
    treatment_plans,   \* argument of optimize_schedule
    revenue_target,    \* argument of optimize_schedule
    now,               \* the day datetime.now().date() reads
    today,             \* local `today` of _get_available_slots, once read
    pc,                \* "idle" | "loop" | "done" | "raised"
    available_slots,   \* local of optimize_schedule
    prompt,            \* local of optimize_schedule
    attempt,           \* loop variable of optimize_schedule
    calls,             \* completion calls made so far: [prompt, outcome]
    result             \* what the caller of optimize_schedule receives

vars == <<max_retries, partial_schedule, treatment_plans, revenue_target, now,
          today, pc, available_slots, prompt, attempt, calls, result>>

(***************************************************************************)
(* Bounds of the model.                                                    *)
(***************************************************************************)
FirstDay == 340       \* earliest clock reading: 2026-12-07, a Monday
DaySpan == 6          \* clock readings FirstDay .. FirstDay + DaySpan
MaxAppts == 4         \* longest partial_schedule of the slot-ledger runs
MaxRetriesArg == 3    \* largest max_retries passed to the constructor
MaxTicks == 2         \* days the clock may advance during one call

(***************************************************************************)
(* The proleptic Gregorian calendar of datetime.date.                      *)
(***************************************************************************)
Epoch == [year |-> 2026, weekday |-> 3]   \* 2026-01-01 is a Thursday

IsLeap(y) == (y % 4 = 0 /\ y % 100 # 0) \/ y % 400 = 0

DaysInMonth(y, m) ==
    IF m = 2 THEN (IF IsLeap(y) THEN 29 ELSE 28)
    ELSE IF m \in {4, 6, 9, 11} THEN 30 ELSE 31

RECURSIVE CivilFrom(_, _, _)
CivilFrom(y, m, n) ==
    IF n < DaysInMonth(y, m) THEN <<y, m, n + 1>>
    ELSE IF m = 12 THEN CivilFrom(y + 1, 1, n - DaysInMonth(y, m))
    ELSE CivilFrom(y, m + 1, n - DaysInMonth(y, m))

\* the dates of Epoch.year and of the year after it, tabulated once
Calendar == [d \in 0..(2 * 365 - 1) |-> CivilFrom(Epoch.year, 1, d)]

\* date.strftime("%Y-%m-%d")
strftime(d) == Calendar[d]

\* date.weekday(): Monday is 0, Sunday is 6
weekday(d) == (Epoch.weekday + d) % 7

\* date + timedelta(days=x)
timedelta(d, x) == d + x

(***************************************************************************)
(* _get_available_slots                                                    *)
(***************************************************************************)
HorizonDays == 30
SlotsPerDay == 3

\* (today + timedelta(days=x)).weekday() < 5
IsWeekday(d) == weekday(d) < 5

\* range((end_date - today).days + 1)
RangeLen(t, end_date) == (end_date - t) + 1

\* date_range = [today + timedelta(days=x) for x in range(...) if weekday < 5]
date_range(t) ==
    LET end_date == timedelta(t, HorizonDays)
        xs == [i \in 1..RangeLen(t, end_date) |-> timedelta(t, i - 1)]
    IN  SelectSeq(xs, IsWeekday)

\* {date.strftime("%Y-%m-%d"): 3 for date in date_range}
InitialSlots(t) ==
    LET dr == date_range(t)
    IN  [i \in 1..Len(dr) |-> [date |-> strftime(dr[i]), slots |-> SlotsPerDay]]

\* date in available_slots
HasKey(dict, key) == \E i \in 1..Len(dict) : dict[i].date = key

\* available_slots[date] -= 1
Decrement(dict, key) ==
    [i \in 1..Len(dict) |->
        IF dict[i].date = key
        THEN [dict[i] EXCEPT !.slots = @ - 1]
        ELSE dict[i]]

\* appointment['date'] raises KeyError when the key is absent
HasDate(appointment) == "date" \in DOMAIN appointment

\* for appointment in partial_schedule: ... (the first k appointments done)
RECURSIVE BookAppointments(_, _, _)
BookAppointments(dict, ps, k) ==
    IF k = 0 THEN dict
    ELSE LET before == BookAppointments(dict, ps, k - 1)
             date == ps[k].date
         IN  IF HasKey(before, date) THEN Decrement(before, date) ELSE before

\* if slots > 0
KeepSlotMut(entry) == entry.slots >= 0
KeepSlot(entry) == entry.slots > 0

\* the loop over partial_schedule raises KeyError at the first appointment
\* without a date
SlotsRaises(ps) == \E i \in 1..Len(ps) : ~HasDate(ps[i])

_get_available_slots(ps, t) ==
    SelectSeq(BookAppointments(InitialSlots(t), ps, Len(ps)), KeepSlot)

(***************************************************************************)
(* _create_prompt and the three formatters.  A rendered section is the     *)
(* sequence of its lines, and a line is the record of the values the       *)
(* f-string interpolates, in the order of the input.                       *)
(***************************************************************************)
HasKeys(d, keys) == \A k \in keys : k \in DOMAIN d

PlanKeys == {"id", "name", "cost"}
ApptKeys == {"date", "treatment", "patient_id", "cost"}

\* plan['id'], plan['name'], plan['cost']: KeyError when one is absent
PlansRaise(tp) == \E i \in 1..Len(tp) : ~HasKeys(tp[i], PlanKeys)

_format_treatment_plans(tp) ==
    [i \in 1..Len(tp) |->
        [patient_id |-> tp[i].id, treatment |-> tp[i].name, cost |-> tp[i].cost]]

PartialRaises(ps) == \E i \in 1..Len(ps) : ~HasKeys(ps[i], ApptKeys)

_format_partial_schedule(ps) ==
    [i \in 1..Len(ps) |->
        [date |-> ps[i].date, treatment |-> ps[i].treatment,
         patient_id |-> ps[i].patient_id, cost |-> ps[i].cost]]

_format_available_slots(slots) ==
    [i \in 1..Len(slots) |-> [date |-> slots[i].date, available |-> slots[i].slots]]

PromptRaises(ps, tp) == PlansRaise(tp) \/ PartialRaises(ps)

_create_prompt(ps, tp, rt, slots) ==
    [formatted_partial_schedule |-> _format_partial_schedule(ps),
     formatted_available_slots |-> _format_available_slots(slots),
     formatted_plans |-> _format_treatment_plans(tp),
     revenue_target |-> rt]

NoPrompt == _create_prompt(<<>>, <<>>, 0, <<>>)

(***************************************************************************)
(* _get_claude_response: the completion client.  A text is what the output *)
(* parser makes of it: whether it decodes as JSON, whether the decoded     *)
(* object validates as a ScheduleOutput, and the ScheduleOutput it holds.  *)
(***************************************************************************)
ScheduledTreatment(date, treatment, patient_id, cost) ==
    [date |-> date, treatment |-> treatment, patient_id |-> patient_id, cost |-> cost]

ScheduleOutput(schedule, total_revenue, revenue_target_met, analysis) ==
    [schedule |-> schedule, total_revenue |-> total_revenue,
     revenue_target_met |-> revenue_target_met, analysis |-> analysis]

EmptyOutput == ScheduleOutput(<<>>, 0, FALSE, "")

Text(json, valid, output) == [json |-> json, valid |-> valid, output |-> output]

Garbage == Text(FALSE, FALSE, EmptyOutput)

MissingField == Text(TRUE, FALSE, EmptyOutput)

Consistent ==
    Text(TRUE, TRUE, ScheduleOutput(
        <<ScheduledTreatment(strftime(FirstDay + 7), "Root Canal", 2, 800),
          ScheduledTreatment(strftime(FirstDay + 8), "Dental Crown", 2, 1000)>>,
        1800, FALSE, "high revenue first"))

WrongTotal ==
    Text(TRUE, TRUE, ScheduleOutput(
        <<ScheduledTreatment(strftime(FirstDay + 7), "Root Canal", 2, 800),
          ScheduledTreatment(strftime(FirstDay + 8), "Dental Implant", 3, 3000)>>,
        10000, TRUE, "target met"))

DoubleBooked ==
    Text(TRUE, TRUE, ScheduleOutput(
        <<ScheduledTreatment(strftime(FirstDay + 7), "Root Canal", 2, 800),
          ScheduledTreatment(strftime(FirstDay + 7), "Dental Crown", 2, 1000)>>,
        1800, FALSE, "same day"))

Texts == {Garbage, MissingField, Consistent, WrongTotal, DoubleBooked}

\* what one call of self.llm.predict(prompt) does
Outcomes ==
    {[kind |-> "transient", text |-> Garbage], [kind |-> "fatal", text |-> Garbage]}
    \cup {[kind |-> "text", text |-> t] : t \in Texts}

(***************************************************************************)
(* _parse_response                                                         *)
(***************************************************************************)
\* self.output_parser.parse(response) raises
ParseRaises(response) == ~(response.json /\ response.valid)

\* parsed_output.dict()
_parse_response(response) == response.output

\* one pass through the try block: the call raised, or the parse did
AttemptRaises(o) == o.kind # "text" \/ ParseRaises(o.text)

(***************************************************************************)
(* optimize_schedule                                                       *)
(***************************************************************************)
\* for attempt in range(self.max_retries)
InRangeMut(a, n) == a <= n
InRange(a, n) == a < n

\* if attempt == self.max_retries - 1
IsLastAttemptMut(a, n) == a = n - 2
IsLastAttempt(a, n) == a = n - 1

Returned(value) == [kind |-> "ok", value |-> value]
ReturnedError(n, o) == [kind |-> "error", attempts |-> n, cause |-> o.kind]
ReturnedNone == [kind |-> "None"]
Raised(key) == [kind |-> "KeyError", key |-> key]
NoResult == [kind |-> "pending"]

\* lines 30-31: the slot snapshot and the prompt, both outside the try block
Start ==
    /\ pc = "idle"
    /\ today' = now
    /\ IF SlotsRaises(partial_schedule)
       THEN /\ pc' = "raised"
            /\ result' = Raised("date")
            /\ UNCHANGED <<available_slots, prompt>>
       ELSE /\ available_slots' = _get_available_slots(partial_schedule, now)
            /\ IF PromptRaises(partial_schedule, treatment_plans)
               THEN /\ pc' = "raised"
                    /\ result' = Raised(IF PlansRaise(treatment_plans)
                                        THEN "plan" ELSE "appointment")
                    /\ UNCHANGED prompt
               ELSE /\ prompt' = _create_prompt(partial_schedule, treatment_plans,
                                                revenue_target, available_slots')
                    /\ pc' = "loop"
                    /\ UNCHANGED result
    /\ UNCHANGED <<max_retries, partial_schedule, treatment_plans, revenue_target,
                   now, attempt, calls>>

\* lines 33-40: one iteration of the retry loop
Attempt ==
    /\ pc = "loop"
    /\ InRange(attempt, max_retries)
    /\ \E o \in Outcomes :
        /\ calls' = Append(calls, [prompt |-> prompt, outcome |-> o])
        /\ IF ~AttemptRaises(o)
           THEN /\ pc' = "done"
                /\ result' = Returned(_parse_response(o.text))
                /\ UNCHANGED attempt
           ELSE IF IsLastAttempt(attempt, max_retries)
           THEN /\ pc' = "done"
                /\ result' = ReturnedError(max_retries, o)
                /\ UNCHANGED attempt
           ELSE /\ attempt' = attempt + 1
                /\ UNCHANGED <<pc, result>>
    /\ UNCHANGED <<max_retries, partial_schedule, treatment_plans, revenue_target,
                   now, today, available_slots, prompt>>

\* the loop runs out without a return statement having run: the function
\* ends and the caller receives None
FallThrough ==
    /\ pc = "loop"
    /\ ~InRange(attempt, max_retries)
    /\ pc' = "done"
    /\ result' = ReturnedNone
    /\ UNCHANGED <<max_retries, partial_schedule, treatment_plans, revenue_target,
                   now, today, available_slots, prompt, attempt, calls>>

\* midnight passes while a completion call is awaited
Tick ==
    /\ pc = "loop"
    /\ now < today + MaxTicks
    /\ now' = now + 1
    /\ UNCHANGED <<max_retries, partial_schedule, treatment_plans, revenue_target,
                   today, pc, available_slots, prompt, attempt, calls, result>>

(***************************************************************************)
(* Inputs.                                                                 *)
(***************************************************************************)
\* app.py, example_treatment_plans
example_treatment_plans ==
    <<[id |-> 1, name |-> "Basic Checkup", cost |-> 100],
      [id |-> 1, name |-> "Dental Cleaning", cost |-> 150],
      [id |-> 1, name |-> "Cavity Filling", cost |-> 200],
      [id |-> 2, name |-> "Root Canal", cost |-> 800],
      [id |-> 2, name |-> "Tooth Extraction", cost |-> 250],
      [id |-> 2, name |-> "Dental Crown", cost |-> 1000],
      [id |-> 3, name |-> "Teeth Whitening", cost |-> 300],
      [id |-> 3, name |-> "Dental Implant", cost |-> 3000],
      [id |-> 4, name |-> "Orthodontic Consultation", cost |-> 150],
      [id |-> 4, name |-> "Wisdom Tooth Removal", cost |-> 450]>>

\* a plan list of length 120, every plan distinct
LongPlans ==
    [i \in 1..120 |-> [id |-> i, name |-> "Basic Checkup", cost |-> 100 + i]]

\* a plan whose optional id is absent
AnonymousPlans == <<[name |-> "Basic Checkup", cost |-> 100]>>

PlanLists == {example_treatment_plans, LongPlans, AnonymousPlans}

Appointment(d) ==
    [date |-> strftime(d), treatment |-> "Basic Checkup", patient_id |-> 1, cost |-> 100]

\* an appointment record lacking a date
UndatedAppointment == [treatment |-> "Basic Checkup", patient_id |-> 1, cost |-> 100]

PartialSchedules ==
    {<<>>, <<Appointment(FirstDay + 7)>>, <<UndatedAppointment>>}

\* before every horizon or inside it, a Saturday, a Monday inside every
\* horizon, the last day of the earliest horizon, a day after every horizon
AppointmentDays ==
    {FirstDay + 2, FirstDay + 5, FirstDay + 7, FirstDay + HorizonDays,
     FirstDay + DaySpan + HorizonDays + 1}

Appointments == {Appointment(d) : d \in AppointmentDays} \cup {UndatedAppointment}

SeqsUpTo(S, n) == UNION {[1..k -> S] : k \in 0..n}

TypicalTarget == 10000

(***************************************************************************)
(* Specifications.                                                         *)
(***************************************************************************)
InitLocals ==
    /\ today = now
    /\ pc = "idle"
    /\ available_slots = <<>>
    /\ prompt = NoPrompt
    /\ attempt = 0
    /\ calls = <<>>
    /\ result = NoResult

\* ScheduleOptimizationAgent(api_key, max_retries) has been constructed and
\* optimize_schedule is about to be called
Init ==
    /\ max_retries \in -1..MaxRetriesArg
    /\ partial_schedule \in PartialSchedules
    /\ treatment_plans \in PlanLists
    /\ revenue_target = TypicalTarget
    /\ now \in FirstDay..(FirstDay + DaySpan)
    /\ InitLocals

Next == Start \/ Attempt \/ FallThrough \/ Tick

Spec == Init /\ [][Next]_vars

\* the slot ledger on its own: every short partial schedule, every weekday
\* the clock can read
InitSlots ==
    /\ max_retries = MaxRetriesArg
    /\ partial_schedule \in SeqsUpTo(Appointments, MaxAppts)
    /\ treatment_plans = example_treatment_plans
    /\ revenue_target = TypicalTarget
    /\ now \in FirstDay..(FirstDay + DaySpan)
    /\ InitLocals

NextSlots == Start

SpecSlots == InitSlots /\ [][NextSlots]_vars

(***************************************************************************)
(* Vocabulary of the properties.                                           *)
(***************************************************************************)
Max(a, b) == IF a > b THEN a ELSE b

Finished == pc = "done"

Failed(i) == AttemptRaises(calls[i].outcome)
Fatal(i) == calls[i].outcome.kind = "fatal"
Transient(i) == calls[i].outcome.kind = "transient"
Unparsable(i) == calls[i].outcome.kind = "text" /\ ParseRaises(calls[i].outcome.text)
Parsed(i) == calls[i].outcome.kind = "text" /\ ~ParseRaises(calls[i].outcome.text)

RECURSIVE SumCost(_)
SumCost(schedule) ==
    IF schedule = <<>> THEN 0 ELSE SumCost(Tail(schedule)) + Head(schedule).cost

\* the plan lines of the first k calls, one after the other
RECURSIVE PlansSent(_)
PlansSent(k) ==
    IF k = 0 THEN <<>> ELSE PlansSent(k - 1) \o calls[k].prompt.formatted_plans

\* "YYYY-MM-DD" strings compare as their <<year, month, day>> do
Earlier(a, b) ==
    \/ a[1] < b[1]
    \/ a[1] = b[1] /\ a[2] < b[2]
    \/ a[1] = b[1] /\ a[2] = b[2] /\ a[3] < b[3]

\* appointments of ps dated d
Booked(ps, d) == Cardinality({i \in 1..Len(ps) : ps[i].date = strftime(d)})

(***************************************************************************)
(* C1.  A fatal error of the completion client aborts the run at once: the *)
(* fatal call is the last call, the run is over, nothing was accepted and  *)
(* the caller holds the top-level error.                                   *)
(***************************************************************************)
C1_FatalAborts ==
    \A i \in 1..Len(calls) :
        Fatal(i) => i = Len(calls) /\ Finished /\ result.kind = "error"

(***************************************************************************)
(* C2.  As claimed: once the run has entered optimize_schedule, the number *)
(* of completion calls is at most max_retries, and every call carries the  *)
(* one prompt rendered from the one slot snapshot.                         *)
(***************************************************************************)
SamePromptEveryCall ==
    /\ \A i \in 1..Len(calls) : calls[i].prompt = prompt
    /\ pc \in {"loop", "done"} =>
        /\ available_slots = _get_available_slots(partial_schedule, today)
        /\ prompt = _create_prompt(partial_schedule, treatment_plans,
                                   revenue_target, available_slots)

C2_CallsWithinMaxRetries ==
    pc \in {"loop", "done"} => Len(calls) <= max_retries /\ SamePromptEveryCall

(***************************************************************************)
(* C2, amended.  The number of completion calls is at most max_retries     *)
(* when that is positive and zero otherwise, and every call carries the    *)
(* one prompt rendered from the slot snapshot taken when the run began,    *)
(* whatever the clock reads by then.                                       *)
(***************************************************************************)
C2_CallsWithinRange ==
    pc \in {"loop", "done"} => Len(calls) <= Max(max_retries, 0) /\ SamePromptEveryCall

\* three calls were made, midnight passed in between, the prompt is the same
C2_Witness ==
    /\ Len(calls) = 3
    /\ now > today
    /\ available_slots # _get_available_slots(partial_schedule, now)
    /\ calls[1].prompt = calls[3].prompt

(***************************************************************************)
(* C3.  A run in which every attempt failed without a fatal error ends in  *)
(* a success-shaped result, and the top-level error is returned only after *)
(* a fatal error.                                                          *)
(***************************************************************************)
C3_ExhaustionDegrades ==
    /\ (Finished /\ calls # <<>> /\ \A i \in 1..Len(calls) : Failed(i) /\ ~Fatal(i))
        => result.kind = "ok"
    /\ result.kind = "error" => Fatal(Len(calls))

(***************************************************************************)
(* C4.  The total_revenue of a returned schedule is the sum of the costs   *)
(* of its entries.                                                         *)
(***************************************************************************)
C4_RevenueIsSumOfCosts ==
    (Finished /\ result.kind = "ok") =>
        result.value.total_revenue = SumCost(result.value.schedule)

(***************************************************************************)
(* C5.  No two entries of a returned schedule share patient_id and date.   *)
(***************************************************************************)
C5_NoDoubleBooking ==
    (Finished /\ result.kind = "ok") =>
        \A i, j \in 1..Len(result.value.schedule) :
            (/\ result.value.schedule[i].patient_id = result.value.schedule[j].patient_id
             /\ result.value.schedule[i].date = result.value.schedule[j].date)
            => i = j

(***************************************************************************)
(* C6.  A run over 120 plans in which nothing failed made three completion *)
(* calls, and the plans sent, in call order, are the input plans in order. *)
(***************************************************************************)
C6_ThreeChunks ==
    (Finished /\ Len(treatment_plans) = 120 /\ \A i \in 1..Len(calls) : ~Failed(i)) =>
        /\ Len(calls) = 3
        /\ PlansSent(Len(calls)) = _format_treatment_plans(treatment_plans)

(***************************************************************************)
(* C7.  No exception leaves optimize_schedule.                             *)
(***************************************************************************)
C7_NothingPropagates == pc # "raised"

(***************************************************************************)
(* C8.  The map _get_available_slots returns holds exactly the weekdays d  *)
(* of today .. today + 30 with 3 - (appointments dated d) > 0, each once,  *)
(* in calendar order, mapped to that count; and partial_schedule is left   *)
(* as it was.                                                              *)
(***************************************************************************)
C8_Remaining(d) == 3 - Booked(partial_schedule, d)

C8_Expected ==
    {[date |-> strftime(d), slots |-> C8_Remaining(d)] :
        d \in {e \in today..(today + 30) : weekday(e) \in 0..4 /\ C8_Remaining(e) > 0}}

C8_MapIsExact ==
    pc = "loop" =>
        /\ {available_slots[i] : i \in 1..Len(available_slots)} = C8_Expected
        /\ Len(available_slots) = Cardinality(C8_Expected)
        /\ \A i \in 1..Len(available_slots) : available_slots[i].slots \in 1..3
        /\ \A i \in 1..(Len(available_slots) - 1) :
            Earlier(available_slots[i].date, available_slots[i + 1].date)

C8_AvailableSlots ==
    /\ []C8_MapIsExact
    /\ [][partial_schedule' = partial_schedule]_vars

\* four appointments on one Monday of the horizon: the day is absent from
\* the map
C8_Witness ==
    /\ pc = "loop"
    /\ Booked(partial_schedule, FirstDay + 7) = 4
    /\ ~HasKey(available_slots, strftime(FirstDay + 7))
    /\ HasKey(available_slots, strftime(FirstDay + 8))

(***************************************************************************)
(* C9.  A response that does not parse is treated as a transient error is: *)
(* when it happens on attempt i < max_retries the run goes on to a further *)
(* call with the same prompt; the first response that parses ends the run, *)
(* is the last call made, and its parsed value is what is returned.        *)
(***************************************************************************)
C9_Retried(i) ==
    /\ i = Len(calls) => pc = "loop" /\ attempt = i /\ attempt < max_retries
    /\ i < Len(calls) => calls[i + 1].prompt = calls[i].prompt

C9_ParseFailureRetried ==
    \A i \in 1..Len(calls) :
        /\ (Unparsable(i) \/ Transient(i)) /\ i < max_retries => C9_Retried(i)
        /\ Parsed(i) =>
            /\ i = Len(calls)
            /\ Finished
            /\ result = Returned(calls[i].outcome.text.output)
            /\ \A j \in 1..(i - 1) : Failed(j)

\* the first response did not parse, the second did and was returned
C9_Witness ==
    /\ Len(calls) = 2
    /\ Unparsable(1)
    /\ Parsed(2)
    /\ result.kind = "ok"

(***************************************************************************)
(* C10.  A finished run returned a parsed result or an error dict, and     *)
(* made at least one completion call.                                      *)
(***************************************************************************)
C10_AlwaysAValue ==
    Finished => result.kind \in {"ok", "error"} /\ Len(calls) >= 1

====
